---- MODULE Spec2Model ----
(***************************************************************************)
(* tar-smart-backup: hierarchical snapshot rotation driven by file names.  *)
(* File names are sequences of character codes, so that slicing, splitting,*)
(* integer parsing, zero padding and lexical sorting are computed the way  *)
(* the script computes them.                                               *)
(***************************************************************************)
EXTENDS Integers, Sequences, FiniteSets, TLC

(* ---------------- bounds of the model ---------------- *)
MaxLevels == 4
MaxCount == 3
MaxCalls == 8
MaxFaults == 1

(* ---------------- characters and literals ---------------- *)
\* args.name: the backup name "A"
NAME == <<65>>
\* EXT = '.tar.gz'
EXT == <<46, 116, 97, 114, 46, 103, 122>>
\* the literal '-snar-'
SNAR == <<45, 115, 110, 97, 114, 45>>
\* the literal '.old'
OLD == <<46, 111, 108, 100>>
\* the separator '_'
USCORE == <<95>>

Min(a, b) == IF a < b THEN a ELSE b
Max(a, b) == IF a > b THEN a ELSE b

(* ---------------- Python string primitives ---------------- *)
\* s[a:b] for 0 <= a, 0 <= b
Slice(s, a, b) == SubSeq(s, a + 1, Min(b, Len(s)))
\* s[a:-k] for k > 0
SliceToNeg(s, a, k) == Slice(s, a, Max(Len(s) - k, 0))
\* s[-k:] for k > 0
SliceFromNeg(s, k) == SubSeq(s, Max(Len(s) - k, 0) + 1, Len(s))

\* str(n) for n >= 0
RECURSIVE DigitsOf(_)
DigitsOf(n) == IF n < 10 THEN <<48 + n>>
               ELSE DigitsOf(n \div 10) \o <<48 + (n % 10)>>

\* mutant: width 2 cuts longer numbers down to their last two digits
Pad2Cut(n) == <<48 + ((n \div 10) % 10), 48 + (n % 10)>>

\* "{:0>2}".format(n): right-aligned in width 2, filled with '0'
Pad2(n) == LET s == DigitsOf(n) IN IF Len(s) < 2 THEN <<48>> \o s ELSE s

IsDigit(c) == c >= 48 /\ c <= 57

\* int(part) raises ValueError on '' and on any non-digit token
IntParses(part) == Len(part) > 0 /\ \A i \in 1..Len(part) : IsDigit(part[i])

RECURSIVE IntValue(_)
IntValue(part) == IF Len(part) = 0 THEN 0
                  ELSE 10 * IntValue(SubSeq(part, 1, Len(part) - 1))
                       + (part[Len(part)] - 48)

\* s.split('_'): always at least one (possibly empty) token
RECURSIVE SplitAt(_, _, _)
SplitAt(s, i, cur) ==
    IF i > Len(s) THEN <<cur>>
    ELSE IF s[i] = USCORE[1] THEN <<cur>> \o SplitAt(s, i + 1, <<>>)
    ELSE SplitAt(s, i + 1, Append(cur, s[i]))

Split(s) == SplitAt(s, 1, <<>>)

\* str < str: code-point lexical order
RECURSIVE LexLess(_, _)
LexLess(a, b) ==
    IF Len(b) = 0 THEN FALSE
    ELSE IF Len(a) = 0 THEN TRUE
    ELSE IF a[1] < b[1] THEN TRUE
    ELSE IF a[1] > b[1] THEN FALSE
    ELSE LexLess(Tail(a), Tail(b))

\* sorted(S) for a set of distinct strings
RECURSIVE Sorted(_)
Sorted(S) ==
    IF S = {} THEN <<>>
    ELSE LET m == CHOOSE x \in S : \A y \in S \ {x} : LexLess(x, y)
         IN <<m>> \o Sorted(S \ {m})

SeqToSet(s) == {s[i] : i \in 1..Len(s)}

(* ---------------- Naming codec ---------------- *)
\* backup_incremental: filename += "_{:0>2}".format(num) for num in levels
RECURSIVE LevelSuffix(_)
LevelSuffix(levels) ==
    IF Len(levels) = 0 THEN <<>>
    ELSE USCORE \o Pad2(levels[1]) \o LevelSuffix(Tail(levels))

\* backup_full / backup_incremental: the archive file name
ArchName(name, levels) == name \o LevelSuffix(levels) \o EXT

\* "{}-snar-{}".format(name, level)
SnapName(name, level) == name \o SNAR \o DigitsOf(level)

\* "{}-snar-{}.old".format(name, level)
OldSnapName(name, level) == SnapName(name, level) \o OLD

\* Python values carry their type: str == bytes is False
PyStr(s) == [ty |-> "str", s |-> s]
PyBytes(s) == [ty |-> "bytes", s |-> s]
PyEq(a, b) == a.ty = b.ty /\ a.s = b.s

is_snap(name, filename) ==
    LET ln == Len(name)
    IN /\ PyEq([filename EXCEPT !.s = Slice(filename.s, 0, ln)], PyStr(name))
       /\ PyEq([filename EXCEPT !.s = Slice(filename.s, ln + 1, ln + 1 + Len(SNAR))],
               PyStr(SNAR))

is_arch(name, filename) ==
    /\ PyEq([filename EXCEPT !.s = Slice(filename.s, 0, Len(name))], PyStr(name))
    /\ PyEq([filename EXCEPT !.s = SliceFromNeg(filename.s, Len(EXT))], PyStr(EXT))

\* parse_filename: the (part_index, value) pairs, stopping at the first
\* token int() rejects
RECURSIVE ParseParts(_, _)
ParseParts(parts, i) ==
    IF i > Len(parts) THEN <<>>
    ELSE IF ~IntParses(parts[i]) THEN <<>>
    ELSE <<(<<i - 1, IntValue(parts[i])>>)>> \o ParseParts(parts, i + 1)

parse_filename(name, filename) ==
    LET item == SliceToNeg(filename, Len(name) + 1, Len(EXT))
    IN ParseParts(Split(item), 1)

(* ---------------- state ---------------- *)
VARIABLES
    dir,      \* args.dst: file name -> [kind, t, path, base]
    remote,   \* args.remote_dir: file name -> the uploaded copy
    pol,      \* args.levels, args.count, args.sync of the run
    clock,    \* number of backup invocations so far (the time stamp)
    last,     \* what the latest backup invocation did
    rst,      \* what the latest restore invocation did
    hist,     \* counters over the whole run
    inflight, \* invocation -> what it scanned and planned, not yet executed
    probe     \* the input and the result of a function applied on its own

vars == <<dir, remote, pol, clock, last, rst, hist, inflight, probe>>

\* a directory with file k written as v
Put(d, k, v) == [x \in (DOMAIN d) \cup {k} |-> IF x = k THEN v ELSE d[x]]
\* a directory without file k
Del(d, k) == [x \in (DOMAIN d) \ {k} |-> d[x]]

EmptyDir == [x \in {} |-> 0]

\* os.listdir: str entries
listdir(d) == {PyStr(f) : f \in DOMAIN d}

\* sorted(filename for filename in listing if pred)
NamesOf(S, names) == [i \in 1..Len(names) |-> CHOOSE f \in S : f.s = names[i]]

SortedNames(S) == NamesOf(S, Sorted({f.s : f \in S}))

find_files(name, listing) ==
    SortedNames({f \in listing : is_arch(name, f)})

find_snap_files(name, listing) ==
    SortedNames({f \in listing : is_snap(name, f)})

(* ---------------- Chain scanner ---------------- *)
\* scan_dir, lines 235-238: one (part_index, value) pair folded into res
ScanPart(res, pair) ==
    IF Len(res) < pair[1] + 1 THEN Append(res, pair[2])
    ELSE [res EXCEPT ![pair[1] + 1] = Max(@, pair[2])]

RECURSIVE ScanParts(_, _)
ScanParts(res, pairs) ==
    IF Len(pairs) = 0 THEN res
    ELSE ScanParts(ScanPart(res, pairs[1]), Tail(pairs))

RECURSIVE ScanFiles(_, _, _)
ScanFiles(name, res, found) ==
    IF Len(found) = 0 THEN res
    ELSE ScanFiles(name, ScanParts(res, parse_filename(name, found[1].s)),
                   Tail(found))

\* mutant: an empty level path is reported as None
ScanFoundConflated(name, found) ==
    IF Len(ScanFiles(name, <<>>, found)) = 0 THEN [none |-> TRUE, res |-> <<>>]
    ELSE [none |-> FALSE, res |-> ScanFiles(name, <<>>, found)]

\* scan_dir, lines 230-239, given found
ScanFound(name, found) ==
    IF Len(found) = 0 THEN [none |-> TRUE, res |-> <<>>]
    ELSE [none |-> FALSE, res |-> ScanFiles(name, <<>>, found)]

\* scan_dir: None when nothing is found, else the per-position maxima
scan_dir(name, listing) == ScanFound(name, find_files(name, listing))

(* ---------------- Rotation planner ---------------- *)
\* mutant: the comparison off by one, so the deepest level is never stale
StaleAtOffByOne(part_index, levels) == part_index > Len(levels) - 1

\* line 252: part_index > len(levels) - 2
StaleAt(part_index, levels) == part_index > Len(levels) - 2

RECURSIVE StaleParts(_, _, _)
StaleParts(filename, pairs, levels) ==
    IF Len(pairs) = 0 THEN <<>>
    ELSE (IF StaleAt(pairs[1][1], levels) THEN <<filename>> ELSE <<>>)
         \o StaleParts(filename, Tail(pairs), levels)

RECURSIVE StaleFiles(_, _, _)
StaleFiles(name, found, levels) ==
    IF Len(found) = 0 THEN <<>>
    ELSE StaleParts(found[1].s, parse_filename(name, found[1].s), levels)
         \o StaleFiles(name, Tail(found), levels)

\* find_files_for_delete: one entry per stale part, so a file may repeat
find_files_for_delete(name, found, levels) == StaleFiles(name, found, levels)

\* mutant: the depth bound off by one
GrowDeeperOffByOne(level, maxLevels) == level < maxLevels

\* line 272: level < args.levels - 1
GrowDeeper(level, maxLevels) == level < maxLevels - 1

\* mutant: a level holds one archive more before it carries
OverflowLate(last_num, count) == last_num > count

\* line 276: last_num > args.count - 1
Overflow(last_num, count) == last_num > count - 1

\* lines 275-285: the carry loop; found is find_files(name, dst), which no
\* iteration changes
RECURSIVE CarryLoop(_, _, _, _, _)
CarryLoop(name, found, count, new_levels, old) ==
    IF ~Overflow(new_levels[Len(new_levels)], count)
    THEN [create_full |-> FALSE, new_levels |-> new_levels, old |-> old]
    ELSE IF Len(new_levels) > 1
    THEN CarryLoop(name, found, count,
                   SubSeq(new_levels, 1, Len(new_levels) - 1),
                   old \o find_files_for_delete(name, found, new_levels))
    ELSE [create_full |-> TRUE, new_levels |-> <<>>,
          old |-> old \o find_files_for_delete(name, found, new_levels)]

\* lines 286-287: new_levels[len(new_levels) - 1] += 1
BumpLast(c) ==
    IF Len(c.new_levels) > 0
    THEN [c EXCEPT !.new_levels[Len(c.new_levels)] = @ + 1]
    ELSE c

\* backup, lines 261-287: create_full, new_levels, old_files_for_delete for
\* the frontier levels = scan_dir(name, dst)
Plan(name, found, levels, maxLevels, count) ==
    IF levels.none
    THEN [create_full |-> TRUE, new_levels |-> <<>>, old |-> <<>>]
    ELSE IF Len(levels.res) = 0
    THEN [create_full |-> FALSE, new_levels |-> <<1>>, old |-> <<>>]
    ELSE IF GrowDeeper(Len(levels.res), maxLevels)
    THEN [create_full |-> FALSE, new_levels |-> Append(levels.res, 1),
          old |-> <<>>]
    ELSE BumpLast(CarryLoop(name, found, count, levels.res, <<>>))

(* ---------------- Checkpoint manager and archiving engine ---------------- *)
\* a file as the model keeps it: what it is, the invocation that last wrote
\* it, the level path it was written for, and (for an incremental archive)
\* the invocation whose source state its checkpoint held when tar started
File(kind, t, path, base) == [kind |-> kind, t |-> t, path |-> path, base |-> base]

\* the exit statuses tar is modelled to return: 0 and 2 (fatal error)
EngineRcs == {0, 2}

\* what tar --listed-incremental=snap was started against
SnapBase(d, snap) == IF snap \in DOMAIN d THEN d[snap].t ELSE 0

\* subprocess.call of TAR_COMMAND_BACKUP: on success the archive is written
\* and the checkpoint updated in place; on failure either may have been
\* written before tar gave up (leftArch, leftSnap)
tar_snap(d, rc, leftSnap, snap, now) ==
    IF rc = 0 \/ leftSnap THEN Put(d, snap, File("snap", now, <<>>, 0)) ELSE d

tar_create(d, rc, leftArch, leftSnap, file, snap, levels, now) ==
    tar_snap(IF rc = 0 \/ leftArch
             THEN Put(d, file, File("arch", now, levels, SnapBase(d, snap)))
             ELSE d,
             rc, leftSnap, snap, now)

\* backup_full, lines 95-109
backup_full(name, d, rc, leftArch, leftSnap, now) ==
    [dir |-> tar_create(Del(Del(d, SnapName(name, 0)), ArchName(name, <<>>)),
                        rc, leftArch, leftSnap, ArchName(name, <<>>),
                        SnapName(name, 0), <<>>, now),
     rc |-> rc, filename |-> ArchName(name, <<>>), snap |-> SnapName(name, 0),
     raised |-> FALSE]

\* mutant: the checkpoint of the depth is overwritten with the youngest
\* checkpoint of the directory, whatever its depth
prepare_snap_youngest(d, parent_snap, snap, old_snap) ==
    Put(Put(d, snap,
            d[CHOOSE f \in DOMAIN d :
                 /\ d[f].kind = "snap"
                 /\ \A g \in DOMAIN d : d[g].kind = "snap" => d[g].t <= d[f].t]),
        old_snap, [d[parent_snap] EXCEPT !.kind = "old"])


\* lines 127-130: seed the checkpoint from the parent depth when it is
\* absent, then copy it to its .old
prepare_snap(d, parent_snap, snap, old_snap) ==
    IF snap \notin DOMAIN d
    THEN Put(Put(d, snap, d[parent_snap]), old_snap,
             [d[parent_snap] EXCEPT !.kind = "old"])
    ELSE Put(d, old_snap, [d[snap] EXCEPT !.kind = "old"])

\* backup_incremental, lines 118-146; shutil.copyfile raises when the parent
\* checkpoint is missing
backup_incremental(name, d, levels, rc, leftArch, leftSnap, now) ==
    IF /\ SnapName(name, Len(levels)) \notin DOMAIN d
       /\ SnapName(name, Len(levels) - 1) \notin DOMAIN d
    THEN [dir |-> d, rc |-> 0, filename |-> ArchName(name, levels),
          snap |-> SnapName(name, Len(levels)), raised |-> TRUE]
    ELSE [dir |-> tar_create(prepare_snap(d, SnapName(name, Len(levels) - 1),
                                          SnapName(name, Len(levels)),
                                          OldSnapName(name, Len(levels))),
                             rc, leftArch, leftSnap, ArchName(name, levels),
                             SnapName(name, Len(levels)), levels, now),
          rc |-> rc, filename |-> ArchName(name, levels),
          snap |-> SnapName(name, Len(levels)), raised |-> FALSE]

(* ---------------- Remote reconciler ---------------- *)
\* remote_find_files, lines 379-385: stdout.read() of "ls -1" is bytes, and so
\* is every line of res.splitlines()
remote_listing(r) == {PyBytes(f) : f \in DOMAIN r}

\* remote_find_files, lines 386-392
remote_find_files(name, r) ==
    find_files(name, remote_listing(r)) \o find_snap_files(name, remote_listing(r))

\* x in lst
PyIn(x, lst) == \E i \in 1..Len(lst) : PyEq(x, lst[i])

\* The post-engine steps thread a record st: the two directories, whether an
\* exception has propagated, the number n of transport operations started,
\* and what was uploaded / removed / remotely deleted. tf is the ordinal of
\* the transport operation that fails (0: none does).
PostInit(d, r) ==
    [dir |-> d, remote |-> r, raised |-> FALSE, n |-> 0, up |-> <<>>,
     removed |-> <<>>, rdel |-> <<>>, syncRan |-> FALSE, syncSeen |-> <<>>,
     syncRemote |-> {}, syncUp |-> <<>>]

\* upload_file, lines 355-359: connect, sftp.put; any failure raises, and so
\* does sftp.put of a local file that does not exist
upload_file(st, f, tf, inSync) ==
    IF st.raised THEN st
    ELSE IF st.n + 1 = tf \/ f \notin DOMAIN st.dir
    THEN [st EXCEPT !.raised = TRUE, !.n = @ + 1]
    ELSE [st EXCEPT !.remote = Put(@, f, st.dir[f]), !.n = @ + 1,
                    !.up = IF inSync THEN @ ELSE Append(@, f),
                    !.syncUp = IF inSync THEN Append(@, f) ELSE @]

\* lines 297-299
upload_new(st, sync, filename, snap, tf) ==
    IF sync THEN upload_file(upload_file(st, filename, tf, FALSE), snap, tf, FALSE)
    ELSE st

\* lines 300-301: os.remove raises FileNotFoundError on a missing file
RECURSIVE remove_old(_, _)
remove_old(st, old) ==
    IF st.raised \/ Len(old) = 0 THEN st
    ELSE IF old[1] \notin DOMAIN st.dir THEN [st EXCEPT !.raised = TRUE]
    ELSE remove_old([st EXCEPT !.dir = Del(@, old[1]),
                               !.removed = Append(@, old[1])], Tail(old))

\* remote_delete, lines 366-373: connect, then rm -f of every listed path
remote_delete(st, sync, old, tf) ==
    IF st.raised \/ ~sync \/ Len(old) = 0 THEN st
    ELSE IF st.n + 1 = tf THEN [st EXCEPT !.raised = TRUE, !.n = @ + 1]
    ELSE [st EXCEPT !.remote = [x \in (DOMAIN @) \ SeqToSet(old) |-> @[x]],
                    !.n = @ + 1, !.rdel = old]

\* sync_remote, lines 418-421
RECURSIVE sync_missing(_, _, _, _)
sync_missing(st, locals, remote_found, tf) ==
    IF st.raised \/ Len(locals) = 0 THEN st
    ELSE sync_missing(IF ~PyIn(locals[1], remote_found)
                      THEN upload_file(st, locals[1].s, tf, TRUE) ELSE st,
                      Tail(locals), remote_found, tf)

\* sync_remote, lines 414-421, once the connection is made
sync_listed(st, locals, remote_found, tf) ==
    sync_missing([st EXCEPT !.n = @ + 1, !.syncRan = TRUE,
                            !.syncSeen = remote_found,
                            !.syncRemote = DOMAIN st.remote],
                 locals, remote_found, tf)

\* sync_remote, lines 413-421
sync_remote(name, st, sync, tf) ==
    IF st.raised \/ ~sync THEN st
    ELSE IF st.n + 1 = tf THEN [st EXCEPT !.raised = TRUE, !.n = @ + 1]
    ELSE sync_listed(st,
                     find_files(name, listdir(st.dir))
                         \o find_snap_files(name, listdir(st.dir)),
                     remote_find_files(name, st.remote), tf)

\* mutant: the post-engine steps run whatever tar returned
PostGuardAlways(rc) == TRUE

\* line 296: the post-engine steps run only for rc == 0
PostGuard(rc) == rc = 0

\* backup, lines 296-306
post_engine(name, d, r, sync, rc, filename, snap, old, tf) ==
    IF ~PostGuard(rc) THEN PostInit(d, r)
    ELSE sync_remote(name,
             remote_delete(
                 remove_old(upload_new(PostInit(d, r), sync, filename, snap, tf),
                            old),
                 sync, old, tf),
             sync, tf)

(* ---------------- backup ---------------- *)
\* exit status of the interpreter when an exception escapes main()
ExcStatus == 1

\* lines 289-294
run_engine(name, d, plan, rc, leftArch, leftSnap, now) ==
    IF plan.create_full
    THEN backup_full(name, d, rc, leftArch, leftSnap, now)
    ELSE backup_incremental(name, d, plan.new_levels, rc, leftArch, leftSnap, now)

\* lines 296-310, after the engine has run (or copyfile has raised)
run_post(name, r, sync, plan, eng, tf) ==
    IF eng.raised THEN PostInit(eng.dir, r)
    ELSE post_engine(name, eng.dir, r, sync, eng.rc, eng.filename, eng.snap,
                     plan.old, tf)

\* the outcome of an invocation: the directories it leaves and its record
Outcome(d, r, levels, plan, eng, post, tf) ==
    [dir |-> post.dir, remote |-> post.remote,
     log |-> [op |-> "backup", none |-> levels.none, frontier |-> levels.res,
              create_full |-> plan.create_full, target |-> plan.new_levels,
              stale |-> plan.old, ran |-> ~eng.raised, rc |-> eng.rc,
              raised |-> (eng.raised \/ post.raised),
              ret |-> IF eng.raised \/ post.raised THEN ExcStatus ELSE eng.rc,
              filename |-> eng.filename, snap |-> eng.snap,
              up |-> post.up, removed |-> post.removed, rdel |-> post.rdel,
              syncRan |-> post.syncRan, syncSeen |-> post.syncSeen,
              syncRemote |-> post.syncRemote, syncUp |-> post.syncUp,
              n |-> post.n, tf |-> tf,
              pre |-> d, preRemote |-> r]]

backup_post(name, d, r, sync, levels, plan, eng, tf) ==
    Outcome(d, r, levels, plan, eng, run_post(name, r, sync, plan, eng, tf), tf)

backup_planned(name, d, r, p, levels, plan, rc, leftArch, leftSnap, tf, now) ==
    backup_post(name, d, r, p.sync, levels, plan,
                run_engine(name, d, plan, rc, leftArch, leftSnap, now), tf)

backup_scanned(name, d, r, p, found, levels, rc, leftArch, leftSnap, tf, now) ==
    backup_planned(name, d, r, p, levels,
                   Plan(name, found, levels, p.levels, p.count),
                   rc, leftArch, leftSnap, tf, now)

backup_found(name, d, r, p, found, rc, leftArch, leftSnap, tf, now) ==
    backup_scanned(name, d, r, p, found, ScanFound(name, found),
                   rc, leftArch, leftSnap, tf, now)

\* backup, lines 257-310, as one invocation at time now on directories d, r
\* under policy p: the engine returns rc (leaving leftArch / leftSnap behind
\* when it fails) and transport operation tf fails
backup(name, d, r, p, rc, leftArch, leftSnap, tf, now) ==
    backup_found(name, d, r, p, find_files(name, listdir(d)),
                 rc, leftArch, leftSnap, tf, now)

NoLast ==
    [op |-> "none", none |-> TRUE, frontier |-> <<>>, create_full |-> FALSE,
     target |-> <<>>, stale |-> <<>>, ran |-> FALSE, rc |-> 0, raised |-> FALSE,
     ret |-> 0, filename |-> <<>>, snap |-> <<>>, up |-> <<>>, removed |-> <<>>,
     rdel |-> <<>>, syncRan |-> FALSE, syncSeen |-> <<>>, syncRemote |-> {},
     syncUp |-> <<>>, n |-> 0, tf |-> 0, pre |-> EmptyDir, preRemote |-> EmptyDir]

\* nothing has run yet: every counter is zero
NoHist ==
    [full |-> 0, incr |-> 0, engFail |-> 0, tFail |-> 0, exc |-> 0, streak |-> 0]

\* no invocation is between its scan and its execution
NoInflight == [x \in {} |-> 0]

\* no function has been applied on its own
NoProbe == [op |-> "none"]

NoRst ==
    [op |-> "none", raised |-> FALSE, chain |-> <<>>, res |-> <<>>,
     steps |-> <<>>, ret |-> 0]

\* the counters after an invocation with record log
HistAfter(log, engFail, tFail) ==
    [full |-> hist.full + (IF log.create_full THEN 1 ELSE 0),
     incr |-> hist.incr + (IF log.create_full THEN 0 ELSE 1),
     engFail |-> hist.engFail + engFail,
     tFail |-> hist.tFail + tFail,
     exc |-> hist.exc + (IF log.raised THEN 1 ELSE 0),
     streak |-> IF log.syncRan /\ ~log.raised THEN 1 ELSE 0]

Commit(o, engFail, tFail) ==
    /\ dir' = o.dir
    /\ remote' = o.remote
    /\ clock' = clock + 1
    /\ last' = o.log
    /\ rst' = NoRst
    /\ hist' = HistAfter(o.log, engFail, tFail)
    /\ UNCHANGED <<pol, inflight, probe>>

\* a backup invocation in which the engine and the transport both work
BackupOk ==
    /\ clock < MaxCalls
    /\ \E o \in {backup(NAME, dir, remote, pol, 0, FALSE, FALSE, 0, clock + 1)} :
          Commit(o, 0, 0)

\* a backup invocation in which tar exits non-zero
BackupEngineFails ==
    /\ clock < MaxCalls
    /\ hist.engFail + hist.tFail < MaxFaults
    /\ \E rc \in EngineRcs \ {0}, leftArch \in BOOLEAN, leftSnap \in BOOLEAN :
          \E o \in {backup(NAME, dir, remote, pol, rc, leftArch, leftSnap, 0,
                           clock + 1)} :
             /\ o.log.ran
             /\ Commit(o, 1, 0)

\* a backup invocation with --sync in which the tf-th transport operation
\* fails; a fault-free run of the same invocation tells how many there are
BackupTransportFails ==
    /\ clock < MaxCalls
    /\ pol.sync
    /\ hist.engFail + hist.tFail < MaxFaults
    /\ \E ok \in {backup(NAME, dir, remote, pol, 0, FALSE, FALSE, 0, clock + 1)} :
          \E tf \in 1..ok.log.n :
             \E o \in {backup(NAME, dir, remote, pol, 0, FALSE, FALSE, tf,
                              clock + 1)} :
                /\ o.log.n >= tf
                /\ Commit(o, 0, 1)

(* ---------------- restore ---------------- *)
\* download_files, lines 402-406
RECURSIVE download_all(_, _, _)
download_all(d, r, found) ==
    IF Len(found) = 0 THEN d
    ELSE download_all(Put(Del(d, found[1].s), found[1].s, r[found[1].s]),
                      r, Tail(found))

\* download_files, lines 399-406
download_files(name, d, r) == download_all(d, r, remote_find_files(name, r))

\* mutant: the depth taken from the number of tokens, parsed or not
restore_snap_tokens(name, filename) ==
    SnapName(name, Len(Split(SliceToNeg(filename, Len(name) + 1, Len(EXT)))))

\* line 324: the checkpoint handed to tar for an archive
restore_snap(name, filename) ==
    SnapName(name, Len(parse_filename(name, filename)))

\* mutant: the exit status of tar is ignored
AbortNever(rc) == FALSE

\* line 332: if rc != 0: return rc
Abort(rc) == rc # 0

\* lines 322-336: the replay loop; res[i] is tar's exit status for found[i]
RECURSIVE restore_loop(_, _, _, _, _)
restore_loop(name, found, res, i, steps) ==
    IF i > Len(found) THEN [steps |-> steps, ret |-> 0]
    ELSE IF Abort(res[i])
    THEN [steps |-> Append(steps, [file |-> found[i].s,
                                   snap |-> restore_snap(name, found[i].s)]),
          ret |-> res[i]]
    ELSE restore_loop(name, found, res, i + 1,
                      Append(steps, [file |-> found[i].s,
                                     snap |-> restore_snap(name, found[i].s)]))

\* lines 316-317
restore_fetch(name, d, r, sync) == IF sync THEN download_files(name, d, r) ELSE d

\* restore, lines 318-336, on the directory d the fetch left
restore(name, d, res) ==
    restore_loop(name, find_files(name, listdir(d)), res, 1, <<>>)

\* tar's exit statuses over a chain of n archives: only the k-th extraction
\* fails, or every extraction from the k-th on fails (k = n + 1: none fails)
EngineRuns(n) ==
    {[i \in 1..n |-> IF i = k THEN 2 ELSE 0] : k \in 1..(n + 1)}
    \cup {[i \in 1..n |-> IF i >= k THEN 2 ELSE 0] : k \in 1..(n + 1)}

\* a restore invocation whose transport works
Restore ==
    /\ clock > 0
    /\ \E d \in {restore_fetch(NAME, dir, remote, pol.sync)} :
          \E chain \in {find_files(NAME, listdir(d))} :
             \E res \in EngineRuns(Len(chain)) :
                \E o \in {restore(NAME, d, res)} :
                   /\ dir' = d
                   /\ rst' = [op |-> "restore", raised |-> FALSE,
                              chain |-> [i \in 1..Len(chain) |-> chain[i].s],
                              res |-> res, steps |-> o.steps, ret |-> o.ret]
    /\ UNCHANGED <<remote, pol, clock, last, hist, inflight, probe>>

\* a restore invocation with --sync whose connection fails: get_ssh_client
\* raises before anything is read or written
RestoreTransportFails ==
    /\ clock > 0
    /\ pol.sync
    /\ rst' = [NoRst EXCEPT !.op = "restore", !.raised = TRUE, !.ret = ExcStatus]
    /\ UNCHANGED <<dir, remote, pol, clock, last, hist, inflight, probe>>

(* ---------------- specifications ---------------- *)
Init ==
    /\ dir = EmptyDir
    /\ remote = EmptyDir
    /\ pol \in [levels : 1..MaxLevels, count : 1..MaxCount, sync : BOOLEAN]
    /\ clock = 0
    /\ last = NoLast
    /\ rst = NoRst
    /\ hist = NoHist
    /\ inflight = NoInflight
    /\ probe = NoProbe

\* backup invocations, with engine and transport failures
Next ==
    \/ BackupOk
    \/ BackupEngineFails
    \/ BackupTransportFails

Spec == Init /\ [][Next]_vars

\* backup invocations that succeed, and restore invocations
NextRestore ==
    \/ BackupOk
    \/ Restore
    \/ RestoreTransportFails

SpecRestore == Init /\ [][NextRestore]_vars

(* ---------------- sync_remote run on its own ---------------- *)
MaxSyncRuns == 2

\* the record of a run of sync_remote alone, lines 410-421
SyncLog(d, r, st, tf) ==
    [NoLast EXCEPT !.op = "sync", !.raised = st.raised,
                   !.ret = IF st.raised THEN ExcStatus ELSE 0,
                   !.syncRan = st.syncRan, !.syncSeen = st.syncSeen,
                   !.syncRemote = st.syncRemote, !.syncUp = st.syncUp,
                   !.n = st.n, !.tf = tf, !.pre = d, !.preRemote = r]

SyncCommit(st, tf) ==
    /\ dir' = st.dir
    /\ remote' = st.remote
    /\ last' = SyncLog(dir, remote, st, tf)
    /\ rst' = NoRst
    /\ hist' = [hist EXCEPT !.tFail = @ + (IF tf = 0 THEN 0 ELSE 1),
                            !.exc = @ + (IF st.raised THEN 1 ELSE 0),
                            !.streak = IF st.raised THEN 0 ELSE @ + 1]
    /\ UNCHANGED <<pol, clock, inflight, probe>>

\* sync_remote runs again on the directories as they are; the transport works
SyncRemote ==
    /\ clock > 0
    /\ pol.sync
    /\ hist.streak < MaxSyncRuns
    /\ \E st \in {sync_remote(NAME, PostInit(dir, remote), TRUE, 0)} :
          SyncCommit(st, 0)

\* sync_remote runs again and its tf-th transport operation fails
SyncRemoteTransportFails ==
    /\ clock > 0
    /\ pol.sync
    /\ hist.engFail + hist.tFail < MaxFaults
    /\ \E ok \in {sync_remote(NAME, PostInit(dir, remote), TRUE, 0)} :
          \E tf \in 1..ok.n :
             \E st \in {sync_remote(NAME, PostInit(dir, remote), TRUE, tf)} :
                SyncCommit(st, tf)

\* backup invocations and further runs of sync_remote
NextSync ==
    \/ BackupOk
    \/ BackupTransportFails
    \/ SyncRemote
    \/ SyncRemoteTransportFails

SpecSync == Init /\ [][NextSync]_vars

(* ---------------- two invocations at once ---------------- *)
\* the invocations that may run at the same time
Procs == {1, 2}

\* how many invocations the interleaved runs go through
MaxRacingCalls == 6

\* an invocation that has scanned and planned (lines 260-287) and has not
\* yet run the engine (line 289 on)
Scanned(d, levels, plan) ==
    [pc |-> "scanned", pre |-> d, levels |-> levels, plan |-> plan,
     at |-> d, target |-> plan.new_levels, full |-> plan.create_full,
     filename |-> <<>>, snap |-> <<>>, post |-> d, raised |-> FALSE]

scan_planned(name, d, p, found, levels) ==
    Scanned(d, levels, Plan(name, found, levels, p.levels, p.count))

scan_found(name, d, p, found) ==
    scan_planned(name, d, p, found, ScanFound(name, found))

\* lines 260-287 of invocation i: the frontier is read and the plan is made
Scan(i) ==
    /\ clock + Cardinality({j \in DOMAIN inflight : inflight[j].pc = "scanned"})
          < MaxRacingCalls
    /\ IF i \in DOMAIN inflight THEN inflight[i].pc = "done" ELSE TRUE
    /\ inflight' = Put(inflight, i,
                       scan_found(NAME, dir, pol, find_files(NAME, listdir(dir))))
    /\ UNCHANGED <<dir, remote, pol, clock, last, rst, hist, probe>>

\* mutant: the plan is made afresh from the directory as it is when the
\* engine starts, as if the invocation held a lock from scan to end
Replanned(i) ==
    scan_found(NAME, dir, pol, find_files(NAME, listdir(dir))).plan

\* lines 289-294 use new_levels and old_files_for_delete as they were
\* computed at lines 260-287
Planned(i) == inflight[i].plan

execute_post(name, r, sync, e, plan, eng) ==
    Outcome(e.pre, r, e.levels, plan, eng,
            run_post(name, r, sync, plan, eng, 0), 0)

execute(name, d, r, p, e, plan, now) ==
    execute_post(name, r, p.sync, e, plan,
                 run_engine(name, d, plan, 0, FALSE, FALSE, now))

\* lines 289-310 of invocation i, on the directory as it is by now
Execute(i) ==
    /\ i \in DOMAIN inflight
    /\ inflight[i].pc = "scanned"
    /\ \E plan \in {Planned(i)} :
          \E o \in {execute(NAME, dir, remote, pol, inflight[i], plan, clock + 1)} :
             /\ dir' = o.dir
             /\ remote' = o.remote
             /\ clock' = clock + 1
             /\ last' = o.log
             /\ rst' = NoRst
             /\ hist' = HistAfter(o.log, 0, 0)
             /\ inflight' = [inflight EXCEPT ![i] =
                                [@ EXCEPT !.pc = "done", !.at = dir,
                                          !.target = plan.new_levels,
                                          !.full = plan.create_full,
                                          !.filename = o.log.filename,
                                          !.snap = o.log.snap,
                                          !.post = o.dir,
                                          !.raised = o.log.raised]]
    /\ UNCHANGED <<pol, probe>>

\* two invocations, each scanning and later executing, in any interleaving
NextConcurrent ==
    \/ \E i \in Procs : Scan(i)
    \/ \E i \in Procs : Execute(i)

SpecConcurrent == Init /\ [][NextConcurrent]_vars

(* ---------------- the policy changes between invocations ---------------- *)
\* main, lines 55-58: --levels is read afresh by every invocation; the next
\* one is started with a smaller value, the directory being what it is
LowerPolicy ==
    /\ clock > 0
    /\ \E l \in 1..(pol.levels - 1) : pol' = [pol EXCEPT !.levels = l]
    /\ UNCHANGED <<dir, remote, clock, last, rst, hist, inflight, probe>>

NextPolicy ==
    \/ BackupOk
    \/ LowerPolicy

SpecPolicy == Init /\ [][NextPolicy]_vars

(* ---------------- the naming codec on its own ---------------- *)
MaxProbeDepth == 2

\* backup names: "A" and "A_1"
ProbeNames == {NAME, <<65, 95, 49>>}
\* level numbers of one, two and three digits
ProbeValues == {1, 2, 9, 10, 99, 100}
ProbePaths == UNION {[1..n -> ProbeValues] : n \in 0..MaxProbeDepth}

InitCodec ==
    /\ dir = EmptyDir
    /\ remote = EmptyDir
    /\ pol = [levels |-> 1, count |-> 1, sync |-> FALSE]
    /\ clock = 0
    /\ last = NoLast
    /\ rst = NoRst
    /\ hist = NoHist
    /\ inflight = NoInflight
    /\ probe \in [op : {"path"}, name : ProbeNames, levels : ProbePaths]

\* backup_full lines 95-98, backup_incremental lines 132-135: the file name
Encode ==
    /\ probe.op = "path"
    /\ probe' = [op |-> "encoded", name |-> probe.name, levels |-> probe.levels,
                 filename |-> ArchName(probe.name, probe.levels)]
    /\ UNCHANGED <<dir, remote, pol, clock, last, rst, hist, inflight>>

\* parse_filename applied to that file name
Decode ==
    /\ probe.op = "encoded"
    /\ probe' = [op |-> "decoded", name |-> probe.name, levels |-> probe.levels,
                 filename |-> probe.filename,
                 pairs |-> parse_filename(probe.name, probe.filename)]
    /\ UNCHANGED <<dir, remote, pol, clock, last, rst, hist, inflight>>

NextCodec ==
    \/ Encode
    \/ Decode

SpecCodec == InitCodec /\ [][NextCodec]_vars

(* ---------------- the planner on its own ---------------- *)
\* the frontiers scan_dir can report: None, or a level path whose entries
\* may exceed --count (the files may stem from runs under another policy)
ProbeFrontiers ==
    {[none |-> TRUE, res |-> <<>>]}
    \cup {[none |-> FALSE, res |-> q] :
             q \in UNION {[1..n -> 1..(MaxCount + 1)] : n \in 0..(MaxLevels - 1)}}

\* find_files on a directory that holds the full archive and one archive
\* for each prefix of the level path
ChainFiles(name, res) ==
    [i \in 1..(Len(res) + 1) |-> PyStr(ArchName(name, SubSeq(res, 1, i - 1)))]

InitPlanner ==
    /\ dir = EmptyDir
    /\ remote = EmptyDir
    /\ pol = [levels |-> 1, count |-> 1, sync |-> FALSE]
    /\ clock = 0
    /\ last = NoLast
    /\ rst = NoRst
    /\ hist = NoHist
    /\ inflight = NoInflight
    /\ probe \in [op : {"frontier"}, levels : ProbeFrontiers,
                  maxLevels : 1..MaxLevels, count : 1..MaxCount]

\* backup, lines 260-287, on the frontier and the policy drawn
ApplyPlan ==
    /\ probe.op = "frontier"
    /\ probe' = [op |-> "planned", levels |-> probe.levels,
                 maxLevels |-> probe.maxLevels, count |-> probe.count,
                 plan |-> Plan(NAME,
                               IF probe.levels.none THEN <<>>
                               ELSE ChainFiles(NAME, probe.levels.res),
                               probe.levels, probe.maxLevels, probe.count)]
    /\ UNCHANGED <<dir, remote, pol, clock, last, rst, hist, inflight>>

NextPlanner == ApplyPlan

SpecPlanner == InitPlanner /\ [][NextPlanner]_vars

(* ---------------- what the claims speak of ---------------- *)
\* the archives and the checkpoints the destination directory holds
Archives == {f \in DOMAIN dir : dir[f].kind = "arch"}
Checkpoints == {f \in DOMAIN dir : dir[f].kind = "snap"}

\* file names written out, character by character
A_tgz == <<65, 46, 116, 97, 114, 46, 103, 122>>
A_01_tgz == <<65, 95, 48, 49, 46, 116, 97, 114, 46, 103, 122>>
A_02_tgz == <<65, 95, 48, 50, 46, 116, 97, 114, 46, 103, 122>>
A_01_01_tgz == <<65, 95, 48, 49, 95, 48, 49, 46, 116, 97, 114, 46, 103, 122>>
A_01_02_tgz == <<65, 95, 48, 49, 95, 48, 50, 46, 116, 97, 114, 46, 103, 122>>
A_snar_0 == <<65, 45, 115, 110, 97, 114, 45, 48>>
A_snar_1 == <<65, 45, 115, 110, 97, 114, 45, 49>>

\* no engine failure and no transport failure so far
FaultFree == hist.engFail = 0 /\ hist.tFail = 0

\* the latest invocation was a backup whose engine ran and returned 0
EngineOk == last.op = "backup" /\ last.ran /\ last.rc = 0

(* ---------------- C1 ---------------- *)
ScenarioA ==
    <<{A_tgz},
      {A_tgz, A_01_tgz},
      {A_tgz, A_01_tgz, A_01_01_tgz},
      {A_tgz, A_01_tgz, A_01_01_tgz, A_01_02_tgz},
      {A_tgz, A_01_tgz, A_02_tgz}>>

\* C1: with levels=3 and count=2, from an empty destination, the archives
\* present after the 1st..5th backup (every engine run succeeding, every
\* invocation running to its end) are exactly {A}, {A, A_01},
\* {A, A_01, A_01_01}, {A, A_01, A_01_01, A_01_02}, {A, A_01, A_02}; the 5th
\* creates A_02 and removes A_01_01 and A_01_02.
C1_ScenarioA ==
    (pol.levels = 3 /\ pol.count = 2 /\ FaultFree /\ clock \in 1..5)
        => /\ Archives = ScenarioA[clock]
           /\ clock = 5 => /\ last.filename = A_02_tgz
                           /\ SeqToSet(last.removed) = {A_01_01_tgz, A_01_02_tgz}

C1_Witness ==
    /\ pol.levels = 3 /\ pol.count = 2 /\ FaultFree /\ clock = 5
    /\ last.removed = <<A_01_01_tgz, A_01_02_tgz>>
    /\ Archives = {A_tgz, A_01_tgz, A_02_tgz}

(* ---------------- C2 ---------------- *)
\* the latest invocation carried until the level path was empty
FullReset == EngineOk /\ last.create_full /\ ~last.none

\* C2: after a full reset whose engine run succeeds, the only archive of the
\* name is the new full archive and the only checkpoint of the name is the
\* new depth-0 checkpoint.
C2_ResetDiscardsChain ==
    FullReset => /\ Archives = {A_tgz}
                 /\ Checkpoints = {A_snar_0}
                 /\ dir[A_tgz].t = clock
                 /\ dir[A_snar_0].t = clock

(* ---------------- C3 ---------------- *)
\* the replay chain restore builds: find_files of the destination directory
ReplayChain == find_files(NAME, listdir(dir))

\* C3: with count below 100, the replay chain lists the surviving archives in
\* the order they were created, the full archive first.
C3_LexicalIsCreationOrder ==
    (pol.count < 100 /\ Len(ReplayChain) > 0)
        => /\ ReplayChain[1].s = A_tgz
           /\ \A i \in 1..Len(ReplayChain), j \in 1..Len(ReplayChain) :
                 i < j => dir[ReplayChain[i].s].t < dir[ReplayChain[j].s].t

(* ---------------- C4 ---------------- *)
\* C4: every archive a backup invocation creates has a level path of length
\* 0..levels-1 whose entries are all >= 1.
C4_LevelPathBounds ==
    (last.op = "backup" /\ last.ran)
        => /\ Len(last.target) <= pol.levels - 1
           /\ \A i \in 1..Len(last.target) : last.target[i] >= 1

(* ---------------- C5 ---------------- *)
\* C5: after exactly (count-1)*(levels-1)+1 backups from an empty destination,
\* every engine run succeeding, exactly one full backup was issued, all the
\* others were incremental, and the level path of the last one has length at
\* most levels-1.
C5_OneFullPerRun ==
    (hist.engFail = 0 /\ clock = (pol.count - 1) * (pol.levels - 1) + 1)
        => /\ hist.full = 1
           /\ hist.incr = clock - 1
           /\ Len(last.target) <= pol.levels - 1

\* the run for levels=4, count=3 ends with the carry from [1,1,3] to [1,2]
C5_Witness ==
    /\ pol.levels = 4 /\ pol.count = 3 /\ hist.engFail = 0 /\ clock = 7
    /\ last.target = <<1, 2>>
    /\ hist.full = 1

(* ---------------- C6 ---------------- *)
\* C6: when the engine returns a non-zero status, nothing is uploaded,
\* nothing is deleted remotely, sync_remote does not run, no stale archive is
\* removed locally, and backup returns the engine's status.
C6_EngineFailureStopsPostSteps ==
    (last.op = "backup" /\ last.ran /\ last.rc # 0)
        => /\ last.up = <<>> /\ last.syncUp = <<>> /\ last.rdel = <<>>
           /\ ~last.syncRan
           /\ last.n = 0
           /\ remote = last.preRemote
           /\ last.removed = <<>>
           /\ \A f \in SeqToSet(last.stale) : f \in DOMAIN dir
           /\ ~last.raised
           /\ last.ret = last.rc

\* tar fails in an invocation with --sync that had stale archives to retire
C6_Witness ==
    /\ last.op = "backup" /\ last.ran /\ last.rc # 0
    /\ pol.sync
    /\ Len(last.stale) > 0
    /\ last.ret = 2

(* ---------------- C7 ---------------- *)
\* what the same invocation leaves in the destination directory without --sync
LocalOnly ==
    backup(NAME, last.pre, last.preRemote, [pol EXCEPT !.sync = FALSE],
           0, FALSE, FALSE, 0, clock).dir

\* C7: when the engine succeeds and a transport operation fails during the
\* sync steps, the invocation still returns 0 and leaves the destination
\* directory as the same invocation without --sync leaves it (new archive,
\* new checkpoint, stale archives removed).
C7_TransportFailureIsLocalSuccess ==
    (EngineOk /\ last.tf # 0)
        => /\ ~last.raised
           /\ last.ret = 0
           /\ dir = LocalOnly

(* ---------------- C8 ---------------- *)
\* the archives by ascending file name
ArchivesInOrder == Sorted(Archives)

\* the first extraction for which tar returned non-zero, 0 when none did
FirstFailure ==
    IF \E i \in 1..Len(rst.res) : rst.res[i] # 0
    THEN CHOOSE i \in 1..Len(rst.res) :
            rst.res[i] # 0 /\ \A j \in 1..(i - 1) : rst.res[j] = 0
    ELSE 0

\* the archives restore handed to tar, in the order it did
Extracted == [i \in 1..Len(rst.steps) |-> rst.steps[i].file]

\* C8: restore extracts the replay chain in order and stops at the first
\* archive for which tar returns non-zero, returning that status; nothing
\* later is extracted and what was extracted stays; when every step returns
\* 0 it extracts every archive once and returns 0.
C8_RestoreFailsFast ==
    (rst.op = "restore" /\ ~rst.raised)
        => IF FirstFailure = 0
           THEN rst.ret = 0 /\ Extracted = ArchivesInOrder
           ELSE /\ rst.ret = rst.res[FirstFailure]
                /\ rst.ret # 0
                /\ Extracted = SubSeq(ArchivesInOrder, 1, FirstFailure)

\* the second of at least three extractions fails, and so would the third
C8_Witness ==
    /\ rst.op = "restore" /\ ~rst.raised
    /\ Len(rst.chain) >= 3
    /\ FirstFailure = 2
    /\ rst.res[3] # 0
    /\ Len(rst.steps) = 2
    /\ rst.ret = 2

(* ---------------- C9 ---------------- *)
\* the checkpoint file name of a depth below 10, written out
SnarOf(d) == <<65, 45, 115, 110, 97, 114, 45, 48 + d>>

\* C9: restore hands tar, for every archive, the checkpoint of the depth of
\* the level path the archive was written for; A.tar.gz, A_01.tar.gz,
\* A_02.tar.gz are replayed in that order with A-snar-0, A-snar-1, A-snar-1.
C9_RestoreCheckpointDepth ==
    (rst.op = "restore" /\ ~rst.raised)
        => /\ \A i \in 1..Len(rst.steps) :
                 rst.steps[i].snap = SnarOf(Len(dir[rst.steps[i].file].path))
           /\ (Archives = {A_tgz, A_01_tgz, A_02_tgz} /\ rst.ret = 0)
                 => rst.steps = <<[file |-> A_tgz, snap |-> A_snar_0],
                                  [file |-> A_01_tgz, snap |-> A_snar_1],
                                  [file |-> A_02_tgz, snap |-> A_snar_1]>>

C9_Witness ==
    /\ rst.op = "restore" /\ ~rst.raised /\ rst.ret = 0
    /\ Archives = {A_tgz, A_01_tgz, A_02_tgz}
    /\ Len(rst.steps) = 3
    /\ rst.steps[3].snap = A_snar_1

(* ---------------- C10 ---------------- *)
\* C10: sync_remote uploads exactly the local archives and checkpoints of the
\* name that the remote directory does not hold, each once.
C10_SyncUploadsMissing ==
    (last.op = "backup" /\ last.syncRan /\ ~last.raised)
        => /\ SeqToSet(last.syncUp)
                = {f \in Archives \cup Checkpoints : f \notin last.syncRemote}
           /\ Len(last.syncUp) = Cardinality(SeqToSet(last.syncUp))

(* ---------------- C11 ---------------- *)
\* C11: a complete run of sync_remote that directly follows a complete run,
\* with the local directory untouched in between, uploads nothing; and no
\* run of sync_remote deletes a local or a remote file.
C11_SyncIdempotent ==
    last.op = "sync" =>
       /\ (~last.raised /\ hist.streak >= 2) => last.syncUp = <<>>
       /\ DOMAIN last.preRemote \subseteq DOMAIN remote
       /\ dir = last.pre

(* ---------------- C12 ---------------- *)
\* invocations i and j scanned the same directory, i executed on it and j
\* executed next, on what i left
Raced(i, j) ==
    /\ i \in DOMAIN inflight /\ j \in DOMAIN inflight /\ i # j
    /\ inflight[i].pc = "done" /\ inflight[j].pc = "done"
    /\ inflight[i].pre = inflight[j].pre
    /\ inflight[i].at = inflight[i].pre
    /\ inflight[j].at = inflight[i].post
    /\ dir = inflight[j].post

\* the directory two invocations leave when run one after the other on d
Sequential(d) ==
    backup(NAME, backup(NAME, d, EmptyDir, [pol EXCEPT !.sync = FALSE],
                        0, FALSE, FALSE, 0, clock - 1).dir,
           EmptyDir, [pol EXCEPT !.sync = FALSE], 0, FALSE, FALSE, 0, clock).dir

ArchivesOf(d) == {f \in DOMAIN d : d[f].kind = "arch"}

\* C12: nothing keeps two invocations apart; when both scan before either
\* writes, both pick the same target level path, write the same archive
\* file and the same checkpoint, and the archives they leave are not those
\* the two invocations leave when run one after the other.
C12_NoMutualExclusion ==
    \A i \in Procs, j \in Procs :
       Raced(i, j) =>
          /\ inflight[i].target = inflight[j].target
          /\ inflight[i].full = inflight[j].full
          /\ inflight[i].filename = inflight[j].filename
          /\ inflight[i].snap = inflight[j].snap
          /\ ArchivesOf(dir) # ArchivesOf(Sequential(inflight[i].pre))

\* two invocations raced on an incremental target: one archive file was
\* written twice
C12_Witness ==
    \E i \in Procs, j \in Procs :
       /\ Raced(i, j)
       /\ ~inflight[i].full
       /\ inflight[i].filename \in Archives
       /\ dir[inflight[i].filename].t = clock

(* ---------------- C13 ---------------- *)
\* what the invocation started next does to the directories as they are
NextBackup == backup(NAME, dir, remote, pol, 0, FALSE, FALSE, 0, clock + 1)

\* C13: when the frontier read from the directory is deeper than the
\* --levels of the invocation, the invocation ends in an error and leaves
\* every archive and every checkpoint as it found them.
C13_ChainCorrupt ==
    Len(scan_dir(NAME, listdir(dir)).res) > pol.levels =>
       /\ NextBackup.log.raised
       /\ NextBackup.log.ret # 0
       /\ NextBackup.dir = dir

(* ---------------- C14 ---------------- *)
\* C14: the scan reports None exactly when the directory holds no archive
\* of the name, and then a full backup with the empty level path is
\* planned; when the full archive is the only archive the scan reports the
\* empty level path, not None, and the incremental [1] is planned.
C14_ScanNoneOrEmpty ==
    last.op = "backup" =>
       /\ last.none <=> ArchivesOf(last.pre) = {}
       /\ last.none => (last.create_full /\ last.target = <<>>)
       /\ ArchivesOf(last.pre) = {A_tgz} =>
             /\ ~last.none
             /\ last.frontier = <<>>
             /\ ~last.create_full
             /\ last.target = <<1>>

\* an invocation found the full archive alone and wrote A_01
C14_Witness ==
    /\ last.op = "backup"
    /\ ArchivesOf(last.pre) = {A_tgz}
    /\ last.target = <<1>>
    /\ A_01_tgz \in Archives
    /\ dir[A_01_tgz].t = clock

(* ---------------- C15 ---------------- *)
\* C15: parse_filename applied to the archive name made for a level path
\* yields the pairs (i, levels[i]), i from 0, in order; the empty level
\* path (the full archive) yields no pair.
C15_CodecRoundTrip ==
    probe.op = "decoded" =>
       probe.pairs = [i \in 1..Len(probe.levels) |-> <<i - 1, probe.levels[i]>>]

\* the name A_1 with level path [10, 100] went through the codec
C15_Witness ==
    /\ probe.op = "decoded"
    /\ probe.name = <<65, 95, 49>>
    /\ probe.levels = <<10, 100>>
    /\ probe.filename = <<65, 95, 49, 95, 49, 48, 95, 49, 48, 48>> \o EXT
    /\ probe.pairs = << <<0, 10>>, <<1, 100>> >>

(* ---------------- C16 ---------------- *)
\* the last position of a level path whose entry does not exceed count - 1
\* (0 when every entry does): the entries after it are the ones dropped
Kept(res, count) ==
    Max(0, CHOOSE k \in 0..Len(res) :
              /\ k > 0 => res[k] <= count - 1
              /\ \A i \in (k + 1)..Len(res) : res[i] > count - 1)

\* the mixed-radix successor of a frontier under a policy
Successor(levels, maxLevels, count) ==
    IF levels.none THEN [full |-> TRUE, target |-> <<>>]
    ELSE IF levels.res = <<>> THEN [full |-> FALSE, target |-> <<1>>]
    ELSE IF Len(levels.res) < maxLevels - 1
    THEN [full |-> FALSE, target |-> Append(levels.res, 1)]
    ELSE IF Kept(levels.res, count) = 0 THEN [full |-> TRUE, target |-> <<>>]
    ELSE [full |-> FALSE,
          target |-> [i \in 1..Kept(levels.res, count) |->
                         IF i = Kept(levels.res, count)
                         THEN levels.res[i] + 1 ELSE levels.res[i]]]

\* C16: for every frontier and every policy the planner's create_full and
\* target level path are those of the mixed-radix successor, and a plan
\* that goes one level deeper retires nothing.
C16_PlannerIsMixedRadix ==
    probe.op = "planned" =>
       /\ probe.plan.create_full
             = Successor(probe.levels, probe.maxLevels, probe.count).full
       /\ probe.plan.new_levels
             = Successor(probe.levels, probe.maxLevels, probe.count).target
       /\ (~probe.levels.none /\ Len(probe.levels.res) < probe.maxLevels - 1)
             => probe.plan.old = <<>>

\* frontier [1, 3, 3] under levels 4, count 3: two entries are dropped and
\* the plan is [2], with the archives below A_01 retired
C16_Witness ==
    /\ probe.op = "planned"
    /\ probe.levels = [none |-> FALSE, res |-> <<1, 3, 3>>]
    /\ probe.maxLevels = 4
    /\ probe.count = 3
    /\ probe.plan.new_levels = <<2>>
    /\ ~probe.plan.create_full
    /\ probe.plan.old # <<>>

(* ---------------- C17 ---------------- *)
NoRepeat(seq) == \A i \in 1..Len(seq), j \in 1..Len(seq) : seq[i] = seq[j] => i = j

\* C17: in a backup invocation whose engine returned 0 (and whose transport
\* worked) the list of stale archives names no file twice, every removal
\* finds its file, and the invocation returns 0.
C17_StaleListedOnce ==
    (EngineOk /\ last.tf = 0) =>
       /\ NoRepeat(last.stale)
       /\ ~last.raised
       /\ last.removed = last.stale
       /\ last.ret = 0

(* ---------------- C18 ---------------- *)
\* C18: under a fixed policy, from an empty destination and with no failure
\* of the engine (or of the transport), after each invocation the frontier
\* read back from the directory is the level path of the archive that
\* invocation created, and no archive lies deeper than that level path.
C18_FrontierIsLatestPath ==
    (FaultFree /\ EngineOk) =>
       /\ scan_dir(NAME, listdir(dir)) = [none |-> FALSE, res |-> last.target]
       /\ \A f \in Archives : Len(dir[f].path) <= Len(last.target)

(* ---------------- C19 ---------------- *)
\* C19: whatever the engine does at each invocation, whenever the directory
\* holds an incremental archive it also holds the full archive, and that
\* full archive is the one the incremental was built on (it is not younger
\* than the incremental).
C19_IncrementalHasItsFull ==
    \A f \in Archives :
       dir[f].path # <<>> =>
          /\ A_tgz \in Archives
          /\ dir[A_tgz].t <= dir[f].t

(* ---------------- C20 ---------------- *)
\* every invocation so far ran to its end and returned 0
AllSucceeded == FaultFree /\ hist.exc = 0

\* C20: after invocations that all succeeded, every archive of the replay
\* chain but the first was produced against a checkpoint that reflects the
\* source no later than the moment the archive before it in the chain was
\* created.
C20_NoUncoveredInterval ==
    AllSucceeded =>
       \A i \in 2..Len(ArchivesInOrder) :
          dir[ArchivesInOrder[i]].base <= dir[ArchivesInOrder[i - 1]].t

\* after a carry, an archive was produced against the checkpoint a retired
\* subtree left behind, older than the archive before it in the chain
C20_Witness ==
    /\ AllSucceeded
    /\ EngineOk
    /\ Len(last.target) > 1
    /\ last.filename \in Archives
    /\ \E i \in 2..Len(ArchivesInOrder) :
          /\ ArchivesInOrder[i] = last.filename
          /\ dir[last.filename].base > dir[A_tgz].t
          /\ dir[last.filename].base < dir[ArchivesInOrder[i - 1]].t

====
